---------------------------- MODULE Spec2Model ----------------------------
(***************************************************************************)
(* SimpleLogger: one Logger (the CoreLogger of main.cpp) dispatching to    *)
(* caller-owned Target objects (a ConsoleTarget and a FileTarget).         *)
(*                                                                         *)
(* Four specifications share the state:                                    *)
(*   Spec        the Logger's registration, threshold and dispatch         *)
(*               (AddTarget, DeleteTarget, SetVerboseLevel, Log);          *)
(*   SpecPrefix  the Logger with Logger::SetPrefix and Target::SetPrefix;  *)
(*   SpecFile    the life of a FileTarget's stream (ChangeFilePath,        *)
(*               AppendToLogFile, Log, Flush, destruction);                *)
(*   SpecRender  the line a Target composes, over every combination of     *)
(*               its options.                                              *)
(***************************************************************************)
EXTENDS Integers, Sequences, FiniteSets, TLC

\* ------------------------------------------------------------------ bounds

\* AddTarget calls in one behaviour (each allocates one handle).
MaxHandles == 3

\* ------------------------------------------------------- values and inputs

\* enum class SeverityLevels, by its integer value.
Verbose   == -2
Debug     == -1
Info      == 0
Important == 1
Warning   == 2
Error     == 3
Failure   == 4
Unknown   == 5

SeverityLevels == Verbose .. Unknown

\* Arguments of SetVerboseLevel(const int&): any int is accepted; the -2 of
\* main.cpp and one value on each side of the enumeration's range.
RawLevels == {-3, -2, 6}

\* The Target objects the caller owns, and the class of each.
Objs == {"tmp1", "tmp3"}

ObjKind(o) == IF o = "tmp3" THEN "FileTarget" ELSE "ConsoleTarget"

Prefixes == {"", "[Target 1]", "[Target 2]"}

RenderPrefixes == {"", "[ENIGNE]"}

Msgs == {"All targets", "Example of an unknown log severity"}

\* File paths handed to the FileTarget constructor: the "LogFile.log" of
\* main.cpp and the constructor's default.
CtorPaths == {"LogFile.log", "logs/LogFile.log"}

\* File paths handed to ChangeFilePath.
Paths == CtorPaths \cup {"log.txt"}

\* The file system: the directory logs/ does not exist ("Please make sure
\* any directories exist!"), so a path under it cannot be opened.
CanOpen(path) == path \in {"LogFile.log", "log.txt"}

\* A std::shared_ptr<Target*> that no AddTarget of this Logger returned
\* (one of the ClientLogger's, say): an identity AddTarget never issues.
ForeignHandle == MaxHandles + 1

FileObjs == {o \in Objs : ObjKind(o) = "FileTarget"}

VARIABLES
    VerboseLevel,   \* Logger::VerboseLevel
    InsertIndex,    \* Logger::InsertIndex
    Targets,        \* Logger::Targets, a sequence of handles
    handles,        \* handles[h]: the Target* held by the h-th make_shared
    tgt,            \* tgt[o]: the fields of Target object o
    stream,         \* stream[o]: FileTarget::logFileRead of object o
    destroyed,      \* objects whose destructor has run
    cerr,           \* file paths reported on std::cerr
    calls,          \* Target::Log calls made by the last operation
    lastOp,         \* the last operation and its arguments
    escaped,        \* how the last operation left: none, exception, terminate
    snap            \* Logger state before the last AddTarget

vars == <<VerboseLevel, InsertIndex, Targets, handles, tgt, stream,
          destroyed, cerr, calls, lastOp, escaped, snap>>

loggerVars == <<VerboseLevel, InsertIndex, Targets, handles>>

\* ------------------------------------------------------------ Target text

UTCTime == "<UTC time>"

ThreadId == "<thread id>"

SeverityLevelToText(severityLevel) ==
    CASE severityLevel = Failure   -> "[ FAILURE ]"
      [] severityLevel = Error     -> "[  ERROR  ]"
      [] severityLevel = Warning   -> "[ WARNING ]"
      [] severityLevel = Important -> "[IMPORTANT]"
      [] severityLevel = Info      -> "[  INFO   ]"
      [] severityLevel = Debug     -> "[  DEBUG  ]"
      [] severityLevel = Verbose   -> "[ VERBOSE ]"
      [] OTHER                     -> "[ UNKNOWN ]"

SeverityLevelToColor(severityLevel) ==
    CASE severityLevel = Failure   -> "\\x1b[31m"
      [] severityLevel = Error     -> "\\x1b[91m"
      [] severityLevel = Warning   -> "\\x1b[33m"
      [] severityLevel = Important -> "\\x1b[32m"
      [] severityLevel = Info      -> "\\x1b[34m"
      [] severityLevel = Debug     -> "\\x1b[35m"
      [] severityLevel = Verbose   -> "\\x1b[35m"
      [] OTHER                     -> "\\x1b[90m"

ColorReset == "\\x1b[0m"

When(cond, s) == IF cond THEN s ELSE <<>>

\* ConsoleTarget::Log with the severity tag written before the timestamp.
ConsoleLineTagFirst(t, severityLevel, message) ==
    When(t.Prefix # "", <<t.Prefix, " ">>)
    \o When(t.AddColors /\ t.WholeMessageColor,
            <<SeverityLevelToColor(severityLevel)>>)
    \o (IF t.AddColors /\ ~t.WholeMessageColor
          THEN <<SeverityLevelToColor(severityLevel),
                 SeverityLevelToText(severityLevel), ColorReset, " ">>
          ELSE <<SeverityLevelToText(severityLevel), " ">>)
    \o When(t.AddTime, <<UTCTime, " ">>)
    \o When(t.AddThreadID, <<"[", ThreadId, "]", " ">>)
    \o <<message, "\n">>
    \o When(t.AddColors /\ t.WholeMessageColor, <<ColorReset>>)

\* The insertions of ConsoleTarget::Log into std::cout, in order.
ConsoleLine(t, severityLevel, message) ==
    When(t.Prefix # "", <<t.Prefix, " ">>)
    \o When(t.AddColors /\ t.WholeMessageColor,
            <<SeverityLevelToColor(severityLevel)>>)
    \o When(t.AddTime, <<UTCTime, " ">>)
    \o (IF t.AddColors /\ t.WholeMessageColor
          THEN <<SeverityLevelToText(severityLevel), " ">>
          ELSE IF t.AddColors /\ ~t.WholeMessageColor
                 THEN <<SeverityLevelToColor(severityLevel),
                        SeverityLevelToText(severityLevel), ColorReset, " ">>
                 ELSE <<SeverityLevelToText(severityLevel), " ">>)
    \o When(t.AddThreadID, <<"[", ThreadId, "]", " ">>)
    \o <<message, "\n">>
    \o When(t.AddColors /\ t.WholeMessageColor, <<ColorReset>>)

\* The insertions of FileTarget::Log into logFileRead, in order.
FileLine(t, severityLevel, message) ==
    When(t.Prefix # "", <<t.Prefix, " ">>)
    \o When(t.AddTime, <<UTCTime, " ">>)
    \o <<SeverityLevelToText(severityLevel), " ">>
    \o When(t.AddThreadID, <<"[", ThreadId, "]", " ">>)
    \o <<message, "\n">>

\* ------------------------------------------------------- std::fstream

\* A default-constructed std::fstream: closed, goodbit, no exception mask.
\* failbit stands for !good(): failbit or badbit.
NewStream ==
    [is_open |-> FALSE, path |-> "", mode |-> "", failbit |-> FALSE,
     except |-> FALSE]

\* basic_ios::setstate(failbit): sets the bit, throws if the mask has it.
SetFail(s) == [s |-> [s EXCEPT !.failbit = TRUE], threw |-> s.except]

\* basic_fstream::open: the filebuf opens the file unless it is already
\* open or the path cannot be opened; failure is setstate(failbit),
\* success is clear().
StreamOpen(s, path, mode) ==
    IF ~s.is_open /\ CanOpen(path)
      THEN [s |-> [s EXCEPT !.is_open = TRUE, !.path = path, !.mode = mode,
                            !.failbit = FALSE],
            threw |-> FALSE]
      ELSE SetFail(s)

\* basic_fstream::close: setstate(failbit) if the filebuf was not open.
StreamClose(s) ==
    IF s.is_open
      THEN [s |-> [s EXCEPT !.is_open = FALSE, !.path = "", !.mode = ""],
            threw |-> FALSE]
      ELSE SetFail(s)

\* basic_ios::exceptions(failbit | badbit): stores the mask, then
\* clear(rdstate()), which throws if a masked bit is set.
StreamExceptions(s) == [s |-> [s EXCEPT !.except = TRUE], threw |-> s.failbit]

\* ------------------------------------------------------------ constructors

\* The member initialisers of class Target.
TargetDefaults ==
    [Prefix |-> "", AddColors |-> TRUE, WholeMessageColor |-> TRUE,
     FilePath |-> "logs/LogFile.log", AppendToFile |-> FALSE,
     AddTime |-> TRUE, AddThreadID |-> TRUE]

ConsoleTargetCtor(addColors, wholeMessageColor, addTime, addThreadID) ==
    [TargetDefaults EXCEPT !.AddColors = addColors,
                           !.WholeMessageColor = wholeMessageColor,
                           !.AddTime = addTime,
                           !.AddThreadID = addThreadID]

\* FileTarget::FileTarget: the fields, the open, and the armed exception
\* mask; a throw of exceptions() is caught and reported on std::cerr.
FileTargetCtor(filePath, shouldAppend, addTime, addThreadID) ==
    LET t == [TargetDefaults EXCEPT !.FilePath = filePath,
                                    !.AppendToFile = shouldAppend,
                                    !.AddTime = addTime,
                                    !.AddThreadID = addThreadID]
        opened == StreamOpen(NewStream, filePath,
                             IF ~shouldAppend THEN "trunc" ELSE "app")
        armed == StreamExceptions(opened.s)
    IN  [t |-> t, s |-> armed.s,
         reported |-> IF armed.threw THEN {filePath} ELSE {}]

\* ---------------------------------------------------------- Target::Log

\* One call of Target::Log on object o, reached through handle h (0 for a
\* direct call). An insertion into a stream that is not good() either is
\* dropped or, the exception mask being armed, throws ios_base::failure:
\* the standard leaves it to the library (throws chooses).
TargetLogCall(o, h, t, s, severityLevel, message, throws) ==
    IF ObjKind(o) = "ConsoleTarget"
      THEN [h |-> h, o |-> o, sev |-> severityLevel, msg |-> message,
            sink |-> "std::cout",
            line |-> ConsoleLine(t, severityLevel, message),
            threw |-> FALSE]
      ELSE [h |-> h, o |-> o, sev |-> severityLevel, msg |-> message,
            sink |-> IF s.is_open /\ ~s.failbit THEN s.path ELSE "",
            line |-> FileLine(t, severityLevel, message),
            threw |-> IF s.is_open /\ ~s.failbit THEN FALSE
                      ELSE IF s.failbit THEN s.except /\ throws
                      ELSE s.except]

\* ------------------------------------------------------------- the Logger

\* std::vector::emplace(begin() + index, x), index counted from 0.
InsertAt(seq, index, x) ==
    SubSeq(seq, 1, index) \o <<x>> \o SubSeq(seq, index + 1, Len(seq))

\* std::vector::erase of the element at position i (from 1).
EraseAt(seq, i) == SubSeq(seq, 1, i - 1) \o SubSeq(seq, i + 1, Len(seq))

\* std::find: the first position holding h, 0 for end().
Find(seq, h) ==
    IF \E i \in 1 .. Len(seq) : seq[i] = h
      THEN CHOOSE i \in 1 .. Len(seq) :
               seq[i] = h /\ \A j \in 1 .. i - 1 : seq[j] # h
      ELSE 0

\* AddTarget emplacing at begin() instead of begin() + InsertIndex.
AddTargetFront(lg, h) ==
    [Targets |-> <<h>> \o lg.Targets, InsertIndex |-> lg.InsertIndex + 1]

\* Logger::AddTarget on the Logger state lg, newTarget being handle h.
AddTargetResult(lg, h) ==
    [Targets |-> InsertAt(lg.Targets, lg.InsertIndex, h),
     InsertIndex |-> lg.InsertIndex + 1]

\* DeleteTarget erasing without InsertIndex--.
DeleteTargetKeepIndex(lg, deleteTarget) ==
    LET it == Find(lg.Targets, deleteTarget)
    IN  IF it # 0
          THEN [Targets |-> EraseAt(lg.Targets, it),
                InsertIndex |-> lg.InsertIndex]
          ELSE lg

\* DeleteTarget with InsertIndex-- outside the if.
DeleteTargetAlwaysDecrement(lg, deleteTarget) ==
    LET it == Find(lg.Targets, deleteTarget)
    IN  [Targets |-> IF it # 0 THEN EraseAt(lg.Targets, it) ELSE lg.Targets,
         InsertIndex |-> lg.InsertIndex - 1]

\* Logger::DeleteTarget on the Logger state lg.
DeleteTargetResult(lg, deleteTarget) ==
    LET it == Find(lg.Targets, deleteTarget)
    IN  IF it # 0
          THEN [Targets |-> EraseAt(lg.Targets, it),
                InsertIndex |-> lg.InsertIndex - 1]
          ELSE lg

\* The filter of Logger::Log: the early return is taken when this is FALSE.
Passes(severityLevel, verboseLevel) == ~(severityLevel < verboseLevel)

\* The loop of Logger::Log over the entries: one Target::Log per entry, in
\* order, abandoned at the first call that throws.
RECURSIVE Dispatch(_, _, _, _)
Dispatch(entries, severityLevel, message, throws) ==
    IF entries = <<>>
      THEN <<>>
      ELSE LET h == Head(entries)
               o == handles[h]
               c == TargetLogCall(o, h, tgt[o],
                                  IF o \in FileObjs THEN stream[o]
                                                    ELSE NewStream,
                                  severityLevel, message, throws)
           IN  IF c.threw
                 THEN <<c>>
                 ELSE <<c>> \o Dispatch(Tail(entries), severityLevel,
                                        message, throws)

\* SetPrefix reaching every Target a handle was ever made for.
PrefixEveryHandle(entries) == {handles[h] : h \in 1 .. Len(handles)}

\* The loop of Logger::SetPrefix: the objects whose prefix it sets.
PrefixTargets(entries) == {handles[entries[i]] : i \in 1 .. Len(entries)}

Outcome(cs) ==
    IF cs # <<>> /\ cs[Len(cs)].threw THEN "exception" ELSE "none"

\* ----------------------------------------------------------- bookkeeping

Op(name, h, o, sev, text) ==
    [op |-> name, h |-> h, o |-> o, sev |-> sev, text |-> text]

NoSnap == [h |-> 0, Targets |-> <<>>, InsertIndex |-> 0]

Running == escaped # "terminate"

Live(o) == o \notin destroyed

\* ------------------------------------------------- the Logger's operations

AddTarget(target) ==
    /\ Running /\ Live(target)
    /\ Len(handles) < MaxHandles
    /\ InsertIndex \in 0 .. Len(Targets)
    /\ LET newTarget == Len(handles) + 1
           r == AddTargetResult([Targets |-> Targets,
                                 InsertIndex |-> InsertIndex], newTarget)
       IN  /\ handles' = Append(handles, target)
           /\ Targets' = r.Targets
           /\ InsertIndex' = r.InsertIndex
           /\ lastOp' = Op("AddTarget", r.Targets[r.InsertIndex], target, 0, "")
           /\ snap' = [h |-> newTarget, Targets |-> Targets,
                       InsertIndex |-> InsertIndex]
    /\ calls' = <<>>
    /\ escaped' = "none"
    /\ UNCHANGED <<VerboseLevel, tgt, stream, destroyed, cerr>>

DeleteTarget(deleteTarget) ==
    /\ Running
    /\ LET r == DeleteTargetResult([Targets |-> Targets,
                                    InsertIndex |-> InsertIndex], deleteTarget)
       IN  /\ Targets' = r.Targets
           /\ InsertIndex' = r.InsertIndex
    /\ lastOp' = Op("DeleteTarget", deleteTarget, "", 0,
                    IF Find(Targets, deleteTarget) # 0 THEN "erased"
                                                       ELSE "not found")
    /\ snap' = IF lastOp.op = "AddTarget" /\ lastOp.h = deleteTarget
                 THEN snap ELSE NoSnap
    /\ calls' = <<>>
    /\ escaped' = "none"
    /\ UNCHANGED <<VerboseLevel, handles, tgt, stream, destroyed, cerr>>

SetVerboseLevelInt(verboseLevel) ==
    /\ Running
    /\ VerboseLevel' = verboseLevel
    /\ lastOp' = Op("SetVerboseLevel", 0, "", verboseLevel, "int")
    /\ calls' = <<>>
    /\ escaped' = "none"
    /\ snap' = NoSnap
    /\ UNCHANGED <<InsertIndex, Targets, handles, tgt, stream, destroyed, cerr>>

SetVerboseLevelSeverity(severityLevel) ==
    /\ Running
    /\ VerboseLevel' = severityLevel
    /\ lastOp' = Op("SetVerboseLevel", 0, "", severityLevel, "SeverityLevels")
    /\ calls' = <<>>
    /\ escaped' = "none"
    /\ snap' = NoSnap
    /\ UNCHANGED <<InsertIndex, Targets, handles, tgt, stream, destroyed, cerr>>

LoggerSetPrefix(prefix) ==
    /\ Running
    /\ \A i \in 1 .. Len(Targets) : Live(handles[Targets[i]])
    /\ tgt' = [o \in Objs |->
                 IF o \in PrefixTargets(Targets)
                   THEN [tgt[o] EXCEPT !.Prefix = prefix]
                   ELSE tgt[o]]
    /\ lastOp' = Op("Logger::SetPrefix", 0, "", 0, prefix)
    /\ calls' = <<>>
    /\ escaped' = "none"
    /\ snap' = NoSnap
    /\ UNCHANGED <<loggerVars, stream, destroyed, cerr>>

LogSeverity(name, severityLevel, message, throws) ==
    /\ Running
    /\ \A i \in 1 .. Len(Targets) : Live(handles[Targets[i]])
    /\ calls' = IF Passes(severityLevel, VerboseLevel)
                  THEN Dispatch(Targets, severityLevel, message, throws)
                  ELSE <<>>
    /\ escaped' = Outcome(calls')
    /\ lastOp' = Op(name, 0, "", severityLevel, message)
    /\ snap' = NoSnap
    /\ UNCHANGED <<loggerVars, tgt, stream, destroyed, cerr>>

\* Logger::Log(const SeverityLevels&, std::string_view)
LoggerLog(severityLevel, message, throws) ==
    LogSeverity("Logger::Log", severityLevel, message, throws)

\* Logger::Log(std::string_view)
LoggerLogMessage(message, throws) ==
    LogSeverity("Logger::Log(message)", Unknown, message, throws)

\* ------------------------------------------------ the Targets' operations

TargetSetPrefix(o, prefix) ==
    /\ Running /\ Live(o)
    /\ tgt' = [tgt EXCEPT ![o].Prefix = prefix]
    /\ lastOp' = Op("Target::SetPrefix", 0, o, 0, prefix)
    /\ calls' = <<>>
    /\ escaped' = "none"
    /\ snap' = NoSnap
    /\ UNCHANGED <<loggerVars, stream, destroyed, cerr>>

EnableColors(o, shouldEnable, wholeMessageColor) ==
    /\ Running /\ Live(o)
    /\ tgt' = [tgt EXCEPT ![o].AddColors = shouldEnable,
                          ![o].WholeMessageColor = wholeMessageColor]
    /\ lastOp' = Op("EnableColors", 0, o, 0, "")
    /\ calls' = <<>>
    /\ escaped' = "none"
    /\ snap' = NoSnap
    /\ UNCHANGED <<loggerVars, stream, destroyed, cerr>>

DisableColors(o) ==
    /\ Running /\ Live(o)
    /\ tgt' = [tgt EXCEPT ![o].AddColors = FALSE]
    /\ lastOp' = Op("DisableColors", 0, o, 0, "")
    /\ calls' = <<>>
    /\ escaped' = "none"
    /\ snap' = NoSnap
    /\ UNCHANGED <<loggerVars, stream, destroyed, cerr>>

ChangeFilePath(o, filePath) ==
    /\ Running /\ Live(o)
    /\ tgt' = [tgt EXCEPT ![o].FilePath = filePath]
    /\ lastOp' = Op("ChangeFilePath", 0, o, 0, filePath)
    /\ calls' = <<>>
    /\ escaped' = "none"
    /\ snap' = NoSnap
    /\ UNCHANGED <<loggerVars, stream, destroyed, cerr>>

AppendToLogFile(o, shouldAppend) ==
    /\ Running /\ Live(o)
    /\ tgt' = [tgt EXCEPT ![o].AppendToFile = shouldAppend]
    /\ lastOp' = Op("AppendToLogFile", 0, o, 0,
                    IF shouldAppend THEN "true" ELSE "false")
    /\ calls' = <<>>
    /\ escaped' = "none"
    /\ snap' = NoSnap
    /\ UNCHANGED <<loggerVars, stream, destroyed, cerr>>

\* A direct call of Target::Log on object o, as (*consoleTarget1)->Log(..).
TargetLog(o, severityLevel, message, throws) ==
    /\ Running /\ Live(o)
    /\ calls' = <<TargetLogCall(o, 0, tgt[o],
                                IF o \in FileObjs THEN stream[o] ELSE NewStream,
                                severityLevel, message, throws)>>
    /\ escaped' = Outcome(calls')
    /\ lastOp' = Op("Target::Log", 0, o, severityLevel, message)
    /\ snap' = NoSnap
    /\ UNCHANGED <<loggerVars, tgt, stream, destroyed, cerr>>

\* FileTarget::Flush: close, reopen FilePath for appending, re-arm the mask.
\* Only exceptions() is inside the try block: a throw of close() or of
\* open() leaves Flush.
FileFlushResult(t, s) ==
    LET closed == StreamClose(s)
        opened == StreamOpen(closed.s, t.FilePath, "app")
        armed  == StreamExceptions(opened.s)
    IN  IF closed.threw
          THEN [s |-> closed.s, escaped |-> "exception", reported |-> {}]
          ELSE IF opened.threw
                 THEN [s |-> opened.s, escaped |-> "exception",
                       reported |-> {}]
                 ELSE [s |-> armed.s, escaped |-> "none",
                       reported |-> IF armed.threw THEN {t.FilePath} ELSE {}]

\* Target::Flush: of a ConsoleTarget std::cout.flush(), of a FileTarget the
\* reopening.
Flush(o) ==
    /\ Running /\ Live(o)
    /\ IF o \in FileObjs
         THEN LET r == FileFlushResult(tgt[o], stream[o])
              IN  /\ stream' = [stream EXCEPT ![o] = r.s]
                  /\ escaped' = r.escaped
                  /\ cerr' = cerr \cup r.reported
         ELSE /\ escaped' = "none"
              /\ UNCHANGED <<stream, cerr>>
    /\ lastOp' = Op("Flush", 0, o, 0, "")
    /\ calls' = <<>>
    /\ snap' = NoSnap
    /\ UNCHANGED <<loggerVars, tgt, destroyed>>

\* FileTarget::~FileTarget: logFileRead.close() in a destructor, which is
\* noexcept: a throw of close() is std::terminate.
FileDtorResult(s) ==
    LET closed == StreamClose(s)
    IN  [s |-> closed.s,
         escaped |-> IF closed.threw THEN "terminate" ELSE "none"]

\* The destructor of object o, which the caller runs once o is registered
\* nowhere (a Target must outlive its registration).
Destroy(o) ==
    /\ Running /\ Live(o)
    /\ \A i \in 1 .. Len(Targets) : handles[Targets[i]] # o
    /\ IF o \in FileObjs
         THEN LET r == FileDtorResult(stream[o])
              IN  /\ stream' = [stream EXCEPT ![o] = r.s]
                  /\ escaped' = r.escaped
         ELSE /\ escaped' = "none"
              /\ UNCHANGED stream
    /\ destroyed' = destroyed \cup {o}
    /\ lastOp' = Op("~Target", 0, o, 0, "")
    /\ calls' = <<>>
    /\ snap' = NoSnap
    /\ UNCHANGED <<loggerVars, tgt, cerr>>

\* ------------------------------------------------------- specifications

\* Logger::Logger, and the Targets as the caller constructed them.
InitWith(console, file) ==
    /\ VerboseLevel = Verbose
    /\ InsertIndex = 0
    /\ Targets = <<>>
    /\ handles = <<>>
    /\ tgt = [o \in Objs |-> IF o \in FileObjs THEN file.t ELSE console]
    /\ stream = [o \in FileObjs |-> file.s]
    /\ destroyed = {}
    /\ cerr = file.reported
    /\ calls = <<>>
    /\ lastOp = Op("constructors", 0, "", 0, "")
    /\ escaped = "none"
    /\ snap = NoSnap

\* The choice a call has over the library's treatment of an insertion
\* into a stream that is not good(): there is one only with such a stream.
ThrowChoices ==
    IF \E o \in FileObjs : stream[o].failbit THEN BOOLEAN ELSE {FALSE}

\* The handles the caller can pass to DeleteTarget: those AddTarget has
\* returned, registered still or not, and a foreign one.
HeldHandles == (1 .. Len(handles)) \cup {ForeignHandle}

\* main.cpp: ConsoleTarget tmp1; FileTarget tmp3(path) or tmp5(path, true).
Init ==
    \E filePath \in CtorPaths :
        InitWith(ConsoleTargetCtor(TRUE, TRUE, TRUE, TRUE),
                 FileTargetCtor(filePath, FALSE, TRUE, TRUE))

\* The Logger: registration, the threshold, dispatch.
Next ==
    \/ \E target \in Objs : AddTarget(target)
    \/ \E h \in HeldHandles : DeleteTarget(h)
    \/ \E v \in RawLevels : SetVerboseLevelInt(v)
    \/ \E sev \in SeverityLevels : SetVerboseLevelSeverity(sev)
    \/ \E sev \in SeverityLevels, throws \in ThrowChoices :
           LoggerLog(sev, "All targets", throws)
    \/ \E m \in Msgs, throws \in ThrowChoices : LoggerLogMessage(m, throws)

Spec == Init /\ [][Next]_vars

\* The Logger and the prefixes of the Targets.
NextPrefix ==
    \/ \E target \in Objs : AddTarget(target)
    \/ \E h \in HeldHandles : DeleteTarget(h)
    \/ SetVerboseLevelInt(-2)
    \/ SetVerboseLevelSeverity(Warning)
    \/ \E p \in Prefixes : LoggerSetPrefix(p)
    \/ \E o \in Objs, p \in Prefixes : TargetSetPrefix(o, p)
    \/ \E sev \in {Info, Error}, throws \in ThrowChoices :
           LoggerLog(sev, "All targets", throws)
    \/ \E throws \in ThrowChoices : LoggerLogMessage("All targets", throws)

SpecPrefix == Init /\ [][NextPrefix]_vars

\* The FileTarget: its path, its stream, its destruction.
InitFile ==
    \E filePath \in CtorPaths, shouldAppend \in BOOLEAN :
        InitWith(ConsoleTargetCtor(TRUE, TRUE, TRUE, TRUE),
                 FileTargetCtor(filePath, shouldAppend, TRUE, TRUE))

NextFile ==
    \/ \E o \in Objs : Flush(o)
    \/ \E o \in Objs : Destroy(o)
    \/ \E o \in FileObjs, p \in Paths : ChangeFilePath(o, p)
    \/ \E o \in FileObjs, b \in BOOLEAN : AppendToLogFile(o, b)
    \/ \E o \in FileObjs, sev \in {Failure, Unknown}, m \in Msgs,
          throws \in ThrowChoices : TargetLog(o, sev, m, throws)

SpecFile == InitFile /\ [][NextFile]_vars

\* The line of a Target, over every combination of its options.
InitRender ==
    \E addColors \in BOOLEAN, wholeMessageColor \in BOOLEAN,
       cTime \in BOOLEAN, cThread \in BOOLEAN,
       filePath \in CtorPaths, fTime \in BOOLEAN, fThread \in BOOLEAN :
        InitWith(ConsoleTargetCtor(addColors, wholeMessageColor, cTime, cThread),
                 FileTargetCtor(filePath, FALSE, fTime, fThread))

NextRender ==
    \/ \E o \in Objs, p \in RenderPrefixes : TargetSetPrefix(o, p)
    \/ \E o \in Objs, b \in BOOLEAN, w \in BOOLEAN : EnableColors(o, b, w)
    \/ \E o \in Objs : DisableColors(o)
    \/ \E o \in Objs, sev \in SeverityLevels, throws \in ThrowChoices :
           TargetLog(o, sev, "All targets", throws)

SpecRender == InitRender /\ [][NextRender]_vars

\* ------------------------------------------------------------- the claims

IsLoggerLog == lastOp.op \in {"Logger::Log", "Logger::Log(message)"}

\* The handles of the Logger's sequence, and the objects they point at.
Registered == {Targets[i] : i \in 1 .. Len(Targets)}

RegisteredObjs == {handles[h] : h \in Registered}

\* Handles AddTarget returned that are in the sequence no more.
Removed == (1 .. Len(handles)) \ Registered

\* How many calls of the last operation went through handle h / to object o.
CallsThrough(h) == Cardinality({i \in 1 .. Len(calls) : calls[i].h = h})

CallsOn(o) == Cardinality({i \in 1 .. Len(calls) : calls[i].o = o})

EntriesOf(o) == Cardinality({i \in 1 .. Len(Targets) : handles[Targets[i]] = o})

\* C1: a Logger::Log(severity, msg) under threshold V calls Log(severity, msg)
\* exactly once on every registered entry, each with that severity and that
\* text, if int(severity) >= V, and calls no Target if int(severity) < V.
C1_EveryEntryOnce ==
    lastOp.op = "Logger::Log" =>
        IF lastOp.sev >= VerboseLevel
          THEN /\ Len(calls) = Len(Targets)
               /\ \A h \in Registered : CallsThrough(h) = 1
               /\ \A i \in 1 .. Len(calls) :
                      calls[i].sev = lastOp.sev /\ calls[i].msg = lastOp.text
          ELSE calls = <<>>

\* C2: the sequence holds the registered handles in the order they were
\* added (AddTarget puts the new entry, which it returns, at the end;
\* DeleteTarget leaves the survivors in order), and the calls of one
\* Logger::Log are made in that order, t1 before t2 before ... tN.
C2_RegistrationOrder ==
    /\ \A i, j \in 1 .. Len(Targets) : i < j => Targets[i] < Targets[j]
    /\ lastOp.op = "AddTarget" =>
           /\ Targets # <<>>
           /\ Targets[Len(Targets)] = Len(handles)
           /\ lastOp.h = Len(handles)
    /\ IsLoggerLog =>
           /\ Len(calls) <= Len(Targets)
           /\ \A i \in 1 .. Len(calls) : calls[i].h = Targets[i]

\* A Log rendered by two targets that were added around one since removed.
C2_Witness ==
    /\ IsLoggerLog
    /\ Len(calls) = 2
    /\ Len(Targets) = 2
    /\ \E r \in Removed : Targets[1] < r /\ r < Targets[2]

\* C3: h = AddTarget(t) directly followed by DeleteTarget(h) leaves the
\* sequence and the insertion position as they were before the AddTarget,
\* whatever the prior state; the next AddTarget appends at the end.
C3_AddThenDelete ==
    (lastOp.op = "DeleteTarget" /\ snap.h # 0) =>
        /\ Targets = snap.Targets
        /\ InsertIndex = snap.InsertIndex
        /\ AddTargetResult([Targets |-> Targets, InsertIndex |-> InsertIndex],
                           ForeignHandle).Targets
             = Append(Targets, ForeignHandle)

\* An AddTarget undone by DeleteTarget, in a Logger that holds a target and
\* has had an earlier one removed.
C3_Witness ==
    /\ lastOp.op = "DeleteTarget"
    /\ snap.h # 0
    /\ lastOp.text = "erased"
    /\ Targets # <<>>
    /\ \E r \in Removed : r < Targets[1]

\* C4: DeleteTarget(h) with a handle that is not in the sequence (never
\* registered here, or removed already) changes neither the sequence, nor
\* the insertion position, nor the threshold, and raises nothing; so a
\* second DeleteTarget(h) changes nothing after the first.
C4_AbsentHandleNoOp ==
    [][ /\ (lastOp'.op = "DeleteTarget" /\ lastOp'.h \notin Registered) =>
               /\ Targets' = Targets
               /\ InsertIndex' = InsertIndex
               /\ VerboseLevel' = VerboseLevel
               /\ escaped' = "none"
        /\ (lastOp.op = "DeleteTarget" /\ lastOp'.op = "DeleteTarget"
              /\ lastOp'.h = lastOp.h) =>
               /\ Targets' = Targets
               /\ InsertIndex' = InsertIndex
               /\ VerboseLevel' = VerboseLevel
      ]_vars

\* A DeleteTarget that found nothing to erase: of a handle removed before,
\* in a Logger that still holds a target.
C4_Witness ==
    /\ lastOp.op = "DeleteTarget"
    /\ lastOp.text = "not found"
    /\ lastOp.h \in Removed
    /\ Targets # <<>>

\* C5: a Logger::Log(message) without a severity goes out with severity
\* Unknown to every registered Target whatever threshold SetVerboseLevel
\* has set (calls cut short by an exception apart, which are C6's).
C5_UnknownAlwaysPasses ==
    (lastOp.op = "Logger::Log(message)" /\ escaped = "none") =>
        /\ Len(calls) = Len(Targets)
        /\ \A i \in 1 .. Len(calls) :
               calls[i].h = Targets[i] /\ calls[i].sev = Unknown

\* C6: no operation on a FileTarget (its Log, its Flush, its destruction)
\* lets a failure of the stream escape to the caller.
C6_NothingEscapes == escaped = "none"

\* C7: the first Log after ChangeFilePath(p) on a FileTarget writes its line
\* to the file at p (p being a path that can be opened).
C7_NextLogUsesNewPath ==
    [][ (/\ lastOp.op = "ChangeFilePath"
         /\ CanOpen(lastOp.text)
         /\ lastOp'.op = "Target::Log"
         /\ lastOp'.o = lastOp.o) =>
            calls'[1].sink = lastOp.text
      ]_vars

\* C8: the sequence never holds a handle twice; an object registered twice
\* is called twice by each accepted Logger::Log, and once DeleteTarget has
\* taken out one of its two registrations, once.
C8_DuplicateRegistrations ==
    /\ \A i, j \in 1 .. Len(Targets) : Targets[i] = Targets[j] => i = j
    /\ (IsLoggerLog /\ lastOp.sev >= VerboseLevel) =>
           \A o \in Objs :
               /\ EntriesOf(o) = 2 => CallsOn(o) = 2
               /\ (EntriesOf(o) = 1 /\ \E r \in Removed : handles[r] = o) =>
                      CallsOn(o) = 1

\* C9: a Target's prefix is empty at first and changes only by SetPrefix:
\* Target::SetPrefix(p) sets it on that Target alone, Logger::SetPrefix(p)
\* on exactly the Targets registered at the call, and no other operation
\* changes any prefix.
C9_PrefixFrame ==
    /\ (lastOp.op = "constructors" => \A o \in Objs : tgt[o].Prefix = "")
    /\ [][ \A o \in Objs :
               tgt'[o].Prefix =
                   IF lastOp'.op = "Target::SetPrefix" /\ lastOp'.o = o
                     THEN lastOp'.text
                     ELSE IF lastOp'.op = "Logger::SetPrefix"
                               /\ o \in RegisteredObjs
                            THEN lastOp'.text
                            ELSE tgt[o].Prefix
         ]_vars

\* A broadcast that set the prefix of the registered Target and left alone
\* the prefix of a Target registered before and removed since.
C9_Witness ==
    /\ lastOp.op = "Logger::SetPrefix"
    /\ \E o \in RegisteredObjs : tgt[o].Prefix = lastOp.text
    /\ \E h \in Removed :
           /\ handles[h] \notin RegisteredObjs
           /\ tgt[handles[h]].Prefix # lastOp.text
           /\ tgt[handles[h]].Prefix # ""

\* The segments of a line in the order of the claim, each with what the
\* code writes after it: prefix, color-open, timestamp, severity tag (in
\* its own color and reset when colors are on but not whole-message),
\* bracketed thread id, message, color-reset.
Segments(o, t, severityLevel, message) ==
    LET colors == ObjKind(o) = "ConsoleTarget" /\ t.AddColors
        whole  == colors /\ t.WholeMessageColor
        tag    == SeverityLevelToText(severityLevel)
        color  == SeverityLevelToColor(severityLevel)
    IN  When(t.Prefix # "", <<[text |-> <<t.Prefix>>, end |-> <<" ">>]>>)
        \o When(whole, <<[text |-> <<color>>, end |-> <<>>]>>)
        \o When(t.AddTime, <<[text |-> <<UTCTime>>, end |-> <<" ">>]>>)
        \o <<[text |-> IF colors /\ ~whole THEN <<color, tag, ColorReset>>
                                           ELSE <<tag>>,
              end |-> <<" ">>]>>
        \o When(t.AddThreadID,
                <<[text |-> <<"[", ThreadId, "]">>, end |-> <<" ">>]>>)
        \o <<[text |-> <<message>>, end |-> <<"\n">>]>>
        \o When(whole, <<[text |-> <<ColorReset>>, end |-> <<>>]>>)

\* The segments joined by one space.
RECURSIVE SpaceSeparated(_)
SpaceSeparated(segs) ==
    IF segs = <<>> THEN <<>>
    ELSE IF Len(segs) = 1 THEN segs[1].text
    ELSE segs[1].text \o <<" ">> \o SpaceSeparated(Tail(segs))

\* The segments, each followed by what the code writes after it.
RECURSIVE Terminated(_)
Terminated(segs) ==
    IF segs = <<>> THEN <<>>
    ELSE segs[1].text \o segs[1].end \o Terminated(Tail(segs))

WithoutNewline(line) == SelectSeq(line, LAMBDA x : x # "\n")

\* The line of the last, direct, Target::Log that reached its medium.
Emitted == lastOp.op = "Target::Log" /\ calls[1].sink # ""

\* C10, as claimed: the emitted line (its newline apart) is the enabled
\* segments in the order prefix, color-open, timestamp, severity tag, thread
\* id, message, color-reset, every two neighbours separated by one space; a
\* FileTarget's line has no color segment.
C10_SpaceSeparated ==
    Emitted =>
        WithoutNewline(calls[1].line) =
            SpaceSeparated(Segments(lastOp.o, tgt[lastOp.o], lastOp.sev,
                                    lastOp.text))

\* C10, amended: the emitted line is the enabled segments in that order,
\* where the prefix, the timestamp, the severity tag and the thread id are
\* each followed by one space and the message by a newline, while the
\* whole-message color-open is followed directly by the next segment and
\* the color-reset directly follows the newline; a FileTarget's line has no
\* color segment whatever its color flags.
C10_SegmentOrder ==
    Emitted =>
        calls[1].line =
            Terminated(Segments(lastOp.o, tgt[lastOp.o], lastOp.sev,
                                lastOp.text))

\* A ConsoleTarget line with every segment: prefix, whole-message color,
\* timestamp, tag, thread id, message.
C10_Witness ==
    /\ Emitted
    /\ ObjKind(lastOp.o) = "ConsoleTarget"
    /\ tgt[lastOp.o].Prefix # ""
    /\ tgt[lastOp.o].AddColors /\ tgt[lastOp.o].WholeMessageColor
    /\ tgt[lastOp.o].AddTime /\ tgt[lastOp.o].AddThreadID
    /\ lastOp.sev = Warning
    /\ Len(calls[1].line) = 14

=============================================================================
